---- MODULE Spec2Model ----
(***************************************************************************)
(* SnapShrink image compressor (the Page component and its helpers).       *)
(* The component state, the object-URL registry of the browser and the     *)
(* batch runs in flight are the state; every event handler and every       *)
(* promise settlement is one action.                                       *)
(***************************************************************************)
EXTENDS Integers, Sequences, FiniteSets, TLC

\* ------------------------------------------------------------------ bounds
\* Object URLs the browser hands out: a run starts only while the URLs
\* created so far, those the runs in flight may still create and those the
\* new run may create stay within this number.
MaxUrls == 6
\* Files in one selection (drop or file dialog).
MaxSel == 2
\* Results and byte sizes the summary statistics are computed over.
MaxItems == 3
MaxSize == 2

\* ------------------------------------------------------------ text values
\* Strings are sequences of characters so that prefix tests are computed.
ImagePrefix == <<"i","m","a","g","e","/">>
ImagePng == <<"i","m","a","g","e","/","p","n","g">>
ImageSvg == <<"i","m","a","g","e","/","s","v","g","+","x","m","l">>
TextPlain == <<"t","e","x","t","/","p","l","a","i","n">>

startsWith(s, p) == Len(s) >= Len(p) /\ SubSeq(s, 1, Len(p)) = p

\* The files the user can pick: a raster image, a vector image, a text file,
\* with their byte sizes and the pixel sizes the browser decodes them to.
FileTable ==
    << [name |-> <<"a",".","p","n","g">>, type |-> ImagePng,
        size |-> 8, width |-> 4000, height |-> 3000],
       [name |-> <<"v",".","s","v","g">>, type |-> ImageSvg,
        size |-> 2, width |-> 300, height |-> 150],
       [name |-> <<"n",".","t","x","t">>, type |-> TextPlain,
        size |-> 1, width |-> 0, height |-> 0] >>

FileIds == 1..Len(FileTable)

\* A Blob: the file it stems from, how many times it went through the
\* encoder, the encoder options of the last pass (0 when none), its media
\* type and its byte size.
File(i) == [src |-> i, gen |-> 0, quality |-> 0, maxEdge |-> 0,
            type |-> FileTable[i].type, size |-> FileTable[i].size]

FileType(b) == FileTable[b.src].type
FileName(b) == FileTable[b.src].name

SeqsUpTo(S, n) == UNION {[1..k -> S] : k \in 0..n}

\* What a drop or the file dialog can deliver (distinct files;
\* neither the drop zone nor the dialog's accept filter restricts the media
\* type, and a selection may be empty).
Selections ==
    {s \in SeqsUpTo({File(i) : i \in FileIds}, MaxSel) :
        \A i, j \in 1..Len(s) : i # j => s[i] # s[j]}

\* Values the controls can deliver: the slider stays inside [0.2, 1] (in
\* percent), the number inputs deliver whatever is typed ("" gives 0).
QualityInputs == {20, 70}
DimensionInputs == {0, 320}

NoError == "null"
ChooseImagesError == "Please choose image files (PNG, JPG, WebP, SVG)."
CompressError == "Something went wrong while compressing images."
RecompressError == "Recompression failed. Try different settings."

VARIABLES
    isProcessing,  \* useState(false)
    error,         \* useState<string | null>(null)
    settings,      \* useState<CompressionSettings>
    sourceFiles,   \* useState<File[]>([])
    results,       \* useState<ProcessedImage[]>([])
    urls,          \* object URLs created so far: kind, live, revoke calls
    runs,          \* processFiles / recompress invocations in flight
    accepted,      \* history: the image files of the last accepted selection
    saved          \* the last saveAs call: what the browser was given to save

vars == <<isProcessing, error, settings, sourceFiles, results,
          urls, runs, accepted, saved>>

\* ------------------------------------------------------------ object URLs
createObjectURL(reg, kind) ==
    Append(reg, [kind |-> kind, live |-> TRUE, revokes |-> 0])

revokeObjectURL(reg, u) ==
    [reg EXCEPT ![u] = [@ EXCEPT !.live = FALSE, !.revokes = @ + 1]]

RECURSIVE revokeAll(_, _)
revokeAll(reg, us) ==
    IF us = <<>> THEN reg
    ELSE revokeAll(revokeObjectURL(reg, Head(us)), Tail(us))

previewUrls(rs) == [i \in 1..Len(rs) |-> rs[i].previewUrl]

\* useEffect(() => () => results.forEach(revoke), [results]): when the
\* results array is replaced, the cleanup revokes every URL of the old one.
resultsCleanup(reg, old) == revokeAll(reg, previewUrls(old))

\* resetPreviews: revoke every preview URL of the current results, return [].
resetPreviews(reg, prev) == revokeAll(reg, previewUrls(prev))

\* ----------------------------------------------------- getImageDimensions
\* Variant without the finally block: the probe URL is revoked on load only.
getImageDimensionsExitNoFinally(reg, u, loaded) ==
    IF loaded THEN revokeObjectURL(reg, u) ELSE reg

\* The finally block: the probe URL is revoked on load and on error.
getImageDimensionsExit(reg, u, loaded) == revokeObjectURL(reg, u)

\* ------------------------------------------------------------ compressFile
Max(a, b) == IF a >= b THEN a ELSE b

\* imageCompression(file, {maxWidthOrHeight, initialQuality, fileType, ...}).
\* The encoder is a library: its output keeps the media type it is given and
\* its byte size is taken to be a function of the input size and the quality
\* (in percent).
imageCompression(file, opts) ==
    LET maxEdge == Max(opts.maxWidth, opts.maxHeight)
    IN  [src |-> file.src,
         gen |-> file.gen + 1,
         quality |-> opts.quality,
         maxEdge |-> IF maxEdge > 0 THEN maxEdge ELSE 0,
         type |-> file.type,
         size |-> (file.size * opts.quality) \div 100]

\* What a probe reads (img.naturalWidth, img.naturalHeight): the pixel size
\* of the source, scaled down to the longest edge the encoder was given
\* (never scaled up).
naturalDimensions(blob) ==
    LET w == FileTable[blob.src].width
        h == FileTable[blob.src].height
        edge == blob.maxEdge
    IN  IF blob.gen = 0 \/ edge = 0 \/ Max(w, h) <= edge
        THEN [width |-> w, height |-> h]
        ELSE IF w >= h
             THEN [width |-> edge, height |-> (h * edge) \div w]
             ELSE [width |-> (w * edge) \div h, height |-> edge]

\* Variant: vector files take the raster path like any other file.
isVectorFileNever(file) == FALSE
\* file.type === "image/svg+xml"
isVectorFile(file) == file.type = ImageSvg

\* ------------------------------------------------------------ batch runs
\* Array.from(files).filter(file => file.type.startsWith("image/"))
IsImageFile(f) == startsWith(FileType(f), ImagePrefix)
filterImages(files) == SelectSeq(files, IsImageFile)

RunIds == {r.id : r \in runs}
RunOf(id) == CHOOSE r \in runs : r.id = id

\* Variant: the loop reads the settings state as it is at the time of the call.
optionsReadCurrent(run) == settings
\* The settings a run's compressFile calls read: the value the callback
\* closed over in the render in which the handler ran.
optionsRead(run) == run.opts

\* Variant: the re-run feeds the displayed outputs back into the encoder.
recompressInputFromResults ==
    IF results = <<>> THEN sourceFiles
    ELSE [i \in 1..Len(results) |-> results[i].compressedBlob]
\* The list recompress iterates over.
recompressInput == sourceFiles

\* Object URLs the runs in flight may still create: per file two probes and
\* one preview.
RECURSIVE urlsPendingOf(_)
urlsPendingOf(rs) ==
    IF rs = {} THEN 0
    ELSE LET r == CHOOSE x \in rs : TRUE
         IN  (IF r.pc = "probeCompressed" THEN 1 ELSE 2)
             + 3 * (Len(r.list) - r.idx) + urlsPendingOf(rs \ {r})
urlsPending == urlsPendingOf(runs)

\* Variant: the start of a run keeps the displayed results.
clearedResultsKept(prev) == prev
\* setResults([]): what the start of a run leaves in the result collection.
clearedResults(prev) == <<>>

\* A run starts: the state resets, then the first compressFile call begins
\* with getImageDimensions(file) creating its probe URL. The run gets the
\* smallest id no run in flight has; files (what the handler was given) and
\* startedWith (the settings state at the start) are history fields.
startRun(kind, files, list) ==
    LET id == CHOOSE n \in 1..(Cardinality(runs) + 1) : n \notin RunIds
        reg1 == resetPreviews(urls, results)
        new == clearedResults(results)
        reg2 == resultsCleanup(reg1, results)
        reg3 == createObjectURL(reg2, "probe")
    IN  /\ Len(urls) + urlsPending + 3 * Len(list) <= MaxUrls
        /\ isProcessing' = TRUE
        /\ results' = new
        /\ urls' = reg3
        /\ runs' = runs \cup
              {[id |-> id, kind |-> kind, files |-> files, list |-> list,
                idx |-> 1, pc |-> "probeOriginal", opts |-> settings,
                startedWith |-> settings,
                originalDimensions |-> [width |-> 0, height |-> 0],
                url |-> Len(reg3), out |-> list[1]]}

\* Variant: the previews are reset before the filtered list is looked at.
processFilesResetFirst(files) ==
    LET list == filterImages(files)
    IN  IF list = <<>>
        THEN /\ error' = ChooseImagesError
             /\ results' = <<>>
             /\ urls' = resetPreviews(urls, results)
             /\ UNCHANGED <<isProcessing, settings, saved, sourceFiles, runs,
                            accepted>>
        ELSE /\ error' = NoError
             /\ startRun("processFiles", files, list)
             /\ accepted' = list
             /\ UNCHANGED <<settings, saved, sourceFiles>>

\* processFiles up to its first await (or its early return).
processFiles(files) ==
    LET list == filterImages(files)
    IN  IF list = <<>>
        THEN /\ error' = ChooseImagesError
             /\ UNCHANGED <<isProcessing, settings, saved, sourceFiles, results,
                            urls, runs, accepted>>
        ELSE /\ error' = NoError
             /\ startRun("processFiles", files, list)
             /\ accepted' = list
             /\ UNCHANGED <<settings, saved, sourceFiles>>

\* A drop on the drop zone. Neither the label nor the file input in it is
\* disabled while isProcessing. (The isDragging flag the handler also clears
\* only styles the drop zone and is not part of the state here.)
handleDrop(files) == processFiles(files)

\* A choice in the file dialog.
handleInputChange(files) == processFiles(files)

\* The "Apply New Settings" button: rendered when sourceFiles is not empty,
\* disabled while isProcessing.
recompress ==
    /\ Len(sourceFiles) > 0
    /\ ~isProcessing
    /\ startRun("recompress", sourceFiles, recompressInput)
    /\ UNCHANGED <<error, settings, saved, sourceFiles, accepted>>

\* Variant: a failure also discards the results streamed so far.
runFailedDropsResults(run, reg) ==
    /\ error' = IF run.kind = "processFiles" THEN CompressError
                ELSE RecompressError
    /\ isProcessing' = FALSE
    /\ results' = <<>>
    /\ urls' = resetPreviews(reg, results)
    /\ runs' = runs \ {run}
    /\ UNCHANGED <<settings, saved, sourceFiles, accepted>>

\* Variant: without the finally block, a failure leaves the flag set.
runFailedNoFinally(run, reg) ==
    /\ error' = IF run.kind = "processFiles" THEN CompressError
                ELSE RecompressError
    /\ urls' = reg
    /\ runs' = runs \ {run}
    /\ UNCHANGED <<isProcessing, settings, saved, sourceFiles, results,
                   accepted>>

\* catch + finally of processFiles / recompress.
runFailed(run, reg) ==
    /\ error' = IF run.kind = "processFiles" THEN CompressError
                ELSE RecompressError
    /\ isProcessing' = FALSE
    /\ urls' = reg
    /\ runs' = runs \ {run}
    /\ UNCHANGED <<settings, saved, sourceFiles, results, accepted>>

\* compressFile returned: the loop body appends the result and either calls
\* compressFile for the next file or leaves the loop. The fresh id of the
\* result (generateId) is the number of its preview URL; run, idx and
\* startedWith are history fields.
runAppend(run, reg) ==
    LET reg1 == createObjectURL(reg, "preview")
        item == [id |-> Len(reg1),
                 name |-> FileName(run.list[run.idx]),
                 originalSize |-> run.list[run.idx].size,
                 compressedSize |-> run.out.size,
                 originalDimensions |-> run.originalDimensions,
                 compressedDimensions |-> naturalDimensions(run.out),
                 compressedBlob |-> run.out,
                 previewUrl |-> Len(reg1),
                 run |-> run.id,
                 idx |-> run.idx,
                 startedWith |-> run.startedWith]
        new == Append(results, item)
        reg2 == resultsCleanup(reg1, results)
    IN  /\ results' = new
        /\ IF run.idx < Len(run.list)
           THEN LET reg3 == createObjectURL(reg2, "probe")
                IN  /\ urls' = reg3
                    /\ runs' = (runs \ {run}) \cup
                          {[run EXCEPT !.idx = @ + 1,
                                       !.pc = "probeOriginal",
                                       !.url = Len(reg3),
                                       !.originalDimensions =
                                           [width |-> 0, height |-> 0],
                                       !.out = run.list[run.idx + 1]]}
                    /\ UNCHANGED <<isProcessing, sourceFiles>>
           ELSE /\ urls' = reg2
                /\ runs' = runs \ {run}
                /\ sourceFiles' = IF run.kind = "processFiles" THEN run.list
                                  ELSE sourceFiles
                /\ isProcessing' = FALSE
        /\ UNCHANGED <<error, settings, saved, accepted>>

\* img.onload of a probe.
imgOnLoad(id) ==
    /\ id \in RunIds
    /\ LET run == RunOf(id)
           reg == getImageDimensionsExit(urls, run.url, TRUE)
           file == run.list[run.idx]
           dims == naturalDimensions(file)
       IN  /\ run.pc \in {"probeOriginal", "probeCompressed"}
           /\ IF run.pc = "probeCompressed"
              THEN runAppend(run, reg)
              ELSE /\ IF isVectorFile(file)
                      THEN LET reg1 == createObjectURL(reg, "probe")
                           IN  /\ urls' = reg1
                               /\ runs' = (runs \ {run}) \cup
                                     {[run EXCEPT !.pc = "probeCompressed",
                                                  !.url = Len(reg1),
                                                  !.originalDimensions = dims,
                                                  !.out = file]}
                      ELSE /\ urls' = reg
                           /\ runs' = (runs \ {run}) \cup
                                 {[run EXCEPT !.pc = "imageCompression",
                                              !.originalDimensions = dims,
                                              !.url = 0]}
                   /\ UNCHANGED <<isProcessing, error, settings, saved,
                                  sourceFiles, results, accepted>>

\* img.onerror of a probe.
imgOnError(id) ==
    /\ id \in RunIds
    /\ LET run == RunOf(id)
       IN  /\ run.pc \in {"probeOriginal", "probeCompressed"}
           /\ runFailed(run, getImageDimensionsExit(urls, run.url, FALSE))

\* The imageCompression promise resolves with the re-encoded blob; the
\* probe of the compressed blob starts.
imageCompressionResolve(id) ==
    /\ id \in RunIds
    /\ LET run == RunOf(id)
           reg1 == createObjectURL(urls, "probe")
       IN  /\ run.pc = "imageCompression"
           /\ urls' = reg1
           /\ runs' = (runs \ {run}) \cup
                 {[run EXCEPT !.pc = "probeCompressed",
                              !.url = Len(reg1),
                              !.out = imageCompression(run.list[run.idx],
                                                       optionsRead(run))]}
    /\ UNCHANGED <<isProcessing, error, settings, saved, sourceFiles,
                   results, accepted>>

imageCompressionReject(id) ==
    /\ id \in RunIds
    /\ LET run == RunOf(id)
       IN  /\ run.pc = "imageCompression"
           /\ runFailed(run, urls)

\* ---------------------------------------------------------------- settings
\* Variant: a quality change reprocesses the retained sources at once.
setQualityReprocesses(v) ==
    /\ ~isProcessing
    /\ settings' = [settings EXCEPT !.quality = v]
    /\ IF Len(sourceFiles) > 0
       THEN startRun("recompress", sourceFiles, sourceFiles)
       ELSE UNCHANGED <<isProcessing, results, urls, runs>>
    /\ UNCHANGED <<saved, error, sourceFiles, accepted>>

\* The three controls are disabled while isProcessing.
setQuality(v) ==
    /\ ~isProcessing
    /\ settings' = [settings EXCEPT !.quality = v]
    /\ UNCHANGED <<saved, isProcessing, error, sourceFiles, results,
                   urls, runs, accepted>>

setMaxWidth(v) ==
    /\ ~isProcessing
    /\ settings' = [settings EXCEPT !.maxWidth = IF v # 0 THEN v ELSE @]
    /\ UNCHANGED <<saved, isProcessing, error, sourceFiles, results,
                   urls, runs, accepted>>

setMaxHeight(v) ==
    /\ ~isProcessing
    /\ settings' = [settings EXCEPT !.maxHeight = IF v # 0 THEN v ELSE @]
    /\ UNCHANGED <<saved, isProcessing, error, sourceFiles, results,
                   urls, runs, accepted>>

\* ------------------------------------------------------------ specification
Init ==
    /\ isProcessing = FALSE
    /\ error = NoError
    /\ settings = [quality |-> 70, maxWidth |-> 1920, maxHeight |-> 1920]
    /\ sourceFiles = <<>>
    /\ results = <<>>
    /\ urls = <<>>
    /\ runs = {}
    /\ accepted = <<>>
    /\ saved = [call |-> "none"]

Next ==
    \/ \E files \in Selections : handleDrop(files)
    \/ \E files \in Selections : handleInputChange(files)
    \/ recompress
    \/ \E id \in RunIds : imgOnLoad(id)
    \/ \E id \in RunIds : imgOnError(id)
    \/ \E id \in RunIds : imageCompressionResolve(id)
    \/ \E id \in RunIds : imageCompressionReject(id)
    \/ \E v \in QualityInputs : setQuality(v)
    \/ \E v \in DimensionInputs : setMaxWidth(v)
    \/ \E v \in DimensionInputs : setMaxHeight(v)

Spec == Init /\ [][Next]_vars

\* The promise a run awaits settles: the image of a probe loads or fails to
\* load, the imageCompression call resolves or rejects.
settles(id) ==
    \/ imgOnLoad(id)
    \/ imgOnError(id)
    \/ imageCompressionResolve(id)
    \/ imageCompressionReject(id)

\* The ids runs in flight can have: a run starts only while three object
\* URLs per file are left for it.
RunIdSpace == 1..(MaxUrls \div 3)

\* Every promise a run awaits settles eventually; nothing is assumed about
\* which way or in which order across runs.
FairSpec == Spec /\ \A id \in RunIdSpace : WF_vars(settles(id))

\* ------------------------------------------------- summary statistics
\* results.reduce((acc, item) => acc + item.<field>, 0)
RECURSIVE sumOriginal(_)
sumOriginal(rs) ==
    IF rs = <<>> THEN 0 ELSE Head(rs).originalSize + sumOriginal(Tail(rs))
RECURSIVE sumCompressed(_)
sumCompressed(rs) ==
    IF rs = <<>> THEN 0 ELSE Head(rs).compressedSize + sumCompressed(Tail(rs))

\* useMemo totalSavings.
totalSavings ==
    IF Len(results) = 0 THEN 0
    ELSE sumOriginal(results) - sumCompressed(results)

\* A number that need not be whole is kept as a fraction num / den, den > 0.
\* Variant: the percentage is not clamped at 0.
maxZeroNone(x) == x
\* Math.max(0, x)
maxZero(x) == IF x.num < 0 THEN [num |-> 0, den |-> 1] ELSE x

\* useMemo savingsPercent.
savingsPercent ==
    IF Len(results) = 0 THEN [num |-> 0, den |-> 1]
    ELSE LET original == sumOriginal(results)
         IN  IF original = 0 THEN [num |-> 0, den |-> 1]
             ELSE maxZero([num |-> totalSavings * 100, den |-> original])

\* A result with arbitrary byte sizes arrives in the result collection
\* (setResults(prev => [...prev, compressed])).
resultArrives(item) ==
    /\ Len(results) < MaxItems
    /\ results' = Append(results, item)
    /\ UNCHANGED <<isProcessing, error, settings, saved, sourceFiles, urls,
                   runs, accepted>>

SizedItems == [originalSize : 0..MaxSize, compressedSize : 0..MaxSize]

StatsNext == \E item \in SizedItems : resultArrives(item)

\* The summary statistics over every result collection within the bounds.
StatsSpec == Init /\ [][StatsNext]_vars

\* -------------------------------------------------------------- export
Dot == "."
Slash == "/"
CompressedInfix == <<"-","c","o","m","p","r","e","s","s","e","d",".">>
JpgFallback == <<"j","p","g">>

\* String.prototype.includes for one character.
includes(s, c) == \E i \in 1..Len(s) : s[i] = c

\* name.replace(/\.[^/.]+$/, ""): the match is a dot followed, up to the
\* end, by one or more characters that are neither a slash nor a dot.
replaceExtension(name) ==
    LET starts == {i \in 1..(Len(name) - 1) :
                      /\ name[i] = Dot
                      /\ \A j \in (i + 1)..Len(name) :
                            name[j] # Slash /\ name[j] # Dot}
    IN  IF starts = {} THEN name
        ELSE SubSeq(name, 1, (CHOOSE i \in starts : TRUE) - 1)

\* type.split("/").at(1): the piece between the first and the second slash,
\* undefined (here the string "undefined") when there is no slash.
splitAt1(type) ==
    LET slashes == {i \in 1..Len(type) : type[i] = Slash}
    IN  IF slashes = {} THEN "undefined"
        ELSE LET first == CHOOSE i \in slashes :
                              \A j \in slashes : i <= j
                 rest == {j \in slashes : j > first}
                 last == IF rest = {} THEN Len(type)
                         ELSE (CHOOSE i \in rest :
                                  \A j \in rest : i <= j) - 1
             IN  SubSeq(type, first + 1, last)

\* The file name both download handlers derive for a result.
fileName(item) ==
    LET extension == IF includes(item.name, Dot)
                     THEN replaceExtension(item.name)
                     ELSE item.name
        subtype == splitAt1(item.compressedBlob.type)
    IN  extension \o CompressedInfix
           \o (IF subtype = "undefined" THEN JpgFallback ELSE subtype)

\* Variant of archive.file: an entry that exists is kept.
archiveFileKeepsFirst(archive, name, data) ==
    [n \in DOMAIN archive \cup {name} |->
        IF n \in DOMAIN archive THEN archive[n] ELSE data]

\* JSZip's archive.file(name, data): entries are keyed by name, adding an
\* existing name replaces its data.
archiveFile(archive, name, data) ==
    [n \in DOMAIN archive \cup {name} |->
        IF n = name THEN data ELSE archive[n]]

\* The loop of downloadAll over the first k results.
RECURSIVE archiveOf(_, _)
archiveOf(rs, k) ==
    IF k = 0 THEN <<>>
    ELSE archiveFile(archiveOf(rs, k - 1), fileName(rs[k]),
                     rs[k].compressedBlob)

\* The archive is filled from the results of the render the click happened
\* in; the continuation after generateAsync only hands it to saveAs (the
\* time stamp in the archive's own name is left out).
downloadAll ==
    /\ Len(results) > 0
    /\ saved' = [call |-> "archive",
                 content |-> archiveOf(results, Len(results))]
    /\ UNCHANGED <<isProcessing, error, settings, sourceFiles, results,
                   urls, runs, accepted>>

downloadFile(k) ==
    /\ k \in 1..Len(results)
    /\ saved' = [call |-> "file", name |-> fileName(results[k]),
                 content |-> results[k].compressedBlob]
    /\ UNCHANGED <<isProcessing, error, settings, sourceFiles, results,
                   urls, runs, accepted>>

\* Results to export: names with one, two and no extension, two of them
\* differing in the extension only; blobs with a media type, with a
\* parameterised subtype and without a type.
ExportNames ==
    { <<"a",".","p","n","g">>, <<"a",".","j","p","g">>,
      <<"a",".","b",".","p","n","g">>, <<"b">> }
ExportTypes == {ImagePng, ImageSvg, <<>>}
ExportItems ==
    {[name |-> n, compressedBlob |-> [type |-> t, of |-> n]] :
        n \in ExportNames, t \in ExportTypes}

ExportNext ==
    \/ \E item \in ExportItems : resultArrives(item)
    \/ downloadAll
    \/ \E k \in 1..MaxItems : downloadFile(k)

ExportSpec == Init /\ [][ExportNext]_vars

\* ------------------------------------------------------ settings controls
\* The slider delivers the steps of 0.05 from 0.2 to 1 (in percent).
SliderValues == {20 + 5 * i : i \in 0..16}
\* A number input delivers every number that is typed: min and max bound
\* the spin buttons and the validity state, not event.target.value.
TypedDimensions == {-5, 0, 1, 320, 8000, 9000}

SettingsNext ==
    \/ \E v \in SliderValues : setQuality(v)
    \/ \E v \in TypedDimensions : setMaxWidth(v)
    \/ \E v \in TypedDimensions : setMaxHeight(v)

\* The settings panel alone, over the values its controls can deliver.
SettingsSpec == Init /\ [][SettingsNext]_vars

\* ================================================================ claims
\* Image files of a selection, counted from the media types.
ImageIndexes(files) ==
    {i \in 1..Len(files) :
        Len(FileType(files[i])) >= 6
        /\ SubSeq(FileType(files[i]), 1, 6) = <<"i","m","a","g","e","/">>}
ImageCount(files) == Cardinality(ImageIndexes(files))

\* The settlement that ends run id (the run leaves the runs in flight).
RunFailure(id) == imgOnError(id) \/ imageCompressionReject(id)
RunSuccess(id) == imgOnLoad(id) /\ id \notin RunIds'
RunStarts == Cardinality(runs') > Cardinality(runs)

\* C1: during and after a batch run the result collection is a prefix of
\* that run's filtered input list: the k-th result stems from the k-th input
\* of that one run, and no result of another run is mixed in.
ResultsPrefixOf(id, list) ==
    /\ Len(results) <= Len(list)
    /\ \A k \in 1..Len(results) :
          /\ results[k].run = id
          /\ results[k].idx = k
          /\ results[k].name = FileName(list[k])
C1_ResultsPrefixOfRun ==
    /\ \A r \in runs : ResultsPrefixOf(r.id, r.list)
    /\ \A j, k \in 1..Len(results) :
          results[j].run = results[k].run /\ results[k].idx = k

\* C2: when compressing a file of a run fails, the run leaves the runs in
\* flight (no later file of it is processed), a run-level error message is
\* set, the processing flag is cleared and the results appended so far stay.
C2_FailureHaltsRun ==
    [][\A id \in RunIds :
          RunFailure(id) =>
             /\ id \notin RunIds'
             /\ error' = (IF RunOf(id).kind = "processFiles"
                          THEN CompressError ELSE RecompressError)
             /\ isProcessing' = FALSE
             /\ results' = results]_vars
\* A first selection of two images failed after its first result.
C2_Witness ==
    /\ runs = {}
    /\ sourceFiles = <<>>
    /\ error = CompressError
    /\ isProcessing = FALSE
    /\ Len(results) = 1
    /\ Len(accepted) = 2

\* C3: every input of a re-run is an original file of the retained source
\* list; no blob that went through the encoder is compressed again.
C3_RecompressReadsSources ==
    /\ \A r \in runs :
          r.kind = "recompress" =>
             /\ r.list = r.files
             /\ \A i \in 1..Len(r.list) : r.list[i].gen = 0
    /\ \A r \in runs : r.out.gen <= 1
    /\ \A k \in 1..Len(results) : results[k].compressedBlob.gen <= 1
\* A re-run under changed settings has re-encoded a retained source.
C3_Witness ==
    \E r \in runs :
        /\ r.kind = "recompress"
        /\ r.pc = "probeCompressed"
        /\ r.out.gen = 1
        /\ r.opts.quality # 70

\* C4: once a selection with an image file was accepted, the retained source
\* list is that selection's image files, whether or not its run succeeded
\* (stated for the states in which no run is in flight).
C4_SourcesAreLastAccepted ==
    (runs = {} /\ accepted # <<>>) => sourceFiles = accepted

\* C5: when a run starts, the previous result set is removed and every
\* preview URL in it is revoked, before the first file is compressed.
C5_StartDiscardsPrevious ==
    [][RunStarts =>
          /\ results' = <<>>
          /\ \A k \in 1..Len(results) : ~urls'[results[k].previewUrl].live
          /\ \A r \in runs' \ runs : r.idx = 1 /\ r.pc = "probeOriginal"]_vars
\* A run has just started over a result set that held previews.
C5_Witness ==
    /\ results = <<>>
    /\ \E r \in runs : r.idx = 1 /\ r.pc = "probeOriginal"
    /\ \E u \in 1..Len(urls) : urls[u].kind = "preview"

\* C6: at most one compressFile call is in flight at any time (every run in
\* flight is inside one compressFile call).
C6_OneCompressionInFlight == Cardinality(runs) <= 1

\* C7: every result of a run is derived with the quality and the longest
\* edge of the settings that were current when the run started.
DerivedWith(blob, s) ==
    blob.gen > 0 =>
        /\ blob.quality = s.quality
        /\ blob.maxEdge = (IF s.maxWidth >= s.maxHeight THEN s.maxWidth
                           ELSE s.maxHeight)
C7_OneSettingsSnapshot ==
    /\ \A k \in 1..Len(results) :
          DerivedWith(results[k].compressedBlob, results[k].startedWith)
    /\ \A r \in runs : DerivedWith(r.out, r.startedWith)
\* The settings were changed while a run was in flight, and the run holds a
\* blob encoded for its next result.
C7_Witness ==
    \E r \in runs :
        /\ r.out.gen = 1
        /\ r.pc = "probeCompressed"
        /\ r.startedWith.quality # settings.quality

\* C8: a selection without any image file sets the warning and changes
\* nothing else: results, sources, settings, processing flag, object URLs
\* and runs in flight stay as they are.
C8_InvalidSelectionNoChange ==
    [][\A files \in Selections :
          (ImageCount(files) = 0
           /\ (handleDrop(files) \/ handleInputChange(files))) =>
             /\ error' = ChooseImagesError
             /\ UNCHANGED <<results, sourceFiles, settings, isProcessing,
                            urls, runs>>]_vars
\* The warning is shown while a run is in flight and results are displayed.
C8_Witness ==
    /\ error = ChooseImagesError
    /\ results # <<>>
    /\ runs # {}
    /\ isProcessing

\* C9: a run over a selection with m >= 1 image files in which no
\* compression fails ends with exactly m results, one per image file in
\* order, and reports no error: the selection clears the error and the
\* run's last step leaves it as it is.
C9_OneResultPerImage ==
    [][/\ \A files \in Selections :
             (ImageCount(files) >= 1
              /\ (handleDrop(files) \/ handleInputChange(files))) =>
                error' = NoError
       /\ \A id \in RunIds :
             (RunSuccess(id) /\ RunOf(id).kind = "processFiles") =>
                LET files == RunOf(id).files
                    imgs == ImageIndexes(files)
                IN  /\ Len(results') = Cardinality(imgs)
                    /\ \A k \in 1..Len(results') :
                          \E i \in imgs :
                             /\ Cardinality({j \in imgs : j <= i}) = k
                             /\ results'[k].name = FileName(files[i])
                    /\ error' = error]_vars

\* C10: the probe URL of getImageDimensions is live exactly while a run waits
\* for that probe, and has been revoked exactly once afterwards, on load and
\* on error alike.
C10_ProbeUrlReleased ==
    \A u \in 1..Len(urls) :
        urls[u].kind = "probe" =>
            IF \E r \in runs :
                  r.url = u /\ r.pc \in {"probeOriginal", "probeCompressed"}
            THEN urls[u].live /\ urls[u].revokes = 0
            ELSE ~urls[u].live /\ urls[u].revokes = 1
\* A vector file: its first probe loaded, its second probe failed.
C10_Witness ==
    /\ runs = {}
    /\ accepted = <<File(2)>>
    /\ error = CompressError
    /\ Len(urls) = 2
    /\ \A u \in 1..2 : urls[u].kind = "probe" /\ ~urls[u].live

\* C11: a source of media type image/svg+xml always yields a result whose
\* compressed blob is the source blob itself, with compressedSize equal to
\* originalSize and compressed dimensions equal to the original ones, and
\* it never waits for the encoder.
IsSvgName(name) ==
    \E i \in FileIds :
        FileTable[i].name = name /\ FileTable[i].type = ImageSvg
C11_VectorPassesThrough ==
    /\ \A k \in 1..Len(results) :
          IsSvgName(results[k].name) =>
             /\ results[k].compressedSize = results[k].originalSize
             /\ results[k].compressedDimensions = results[k].originalDimensions
             /\ results[k].compressedBlob \in {File(i) : i \in FileIds}
             /\ FileTable[results[k].compressedBlob.src].name = results[k].name
    /\ \A r \in runs :
          r.list[r.idx].type = ImageSvg =>
             r.pc # "imageCompression" /\ r.out = r.list[r.idx]
\* A vector file became a result while the settings ask for re-encoding.
C11_Witness ==
    \E k \in 1..Len(results) :
        /\ IsSvgName(results[k].name)
        /\ results[k].originalSize = 2
        /\ results[k].originalDimensions = [width |-> 300, height |-> 150]
        /\ results[k].startedWith.quality = 20

\* C12: for every non-empty result set with non-negative sizes the
\* percentage saved lies in [0, 100], also when items grew (totalSavings
\* negative) and when the original sizes sum to 0.
C12_PercentInRange ==
    Len(results) > 0 =>
        /\ savingsPercent.den > 0
        /\ 0 <= savingsPercent.num
        /\ savingsPercent.num <= 100 * savingsPercent.den
\* One item grew, one shrank, and the set as a whole grew.
C12_Witness ==
    /\ totalSavings < 0
    /\ \E k \in 1..Len(results) :
          results[k].compressedSize < results[k].originalSize
    /\ \E k \in 1..Len(results) :
          results[k].compressedSize > results[k].originalSize
    /\ savingsPercent = [num |-> 0, den |-> 1]

\* C13: changing a setting starts no run and leaves results, retained
\* sources, processing flag, error and object URLs as they are; results
\* change only in the steps of a run, and runs are started by nothing else.
C13_SettingsChangeStartsNoRun ==
    [][/\ \A v \in QualityInputs :
             setQuality(v) =>
                UNCHANGED <<results, sourceFiles, isProcessing, error, urls,
                            runs>>
       /\ \A v \in DimensionInputs :
             (setMaxWidth(v) \/ setMaxHeight(v)) =>
                UNCHANGED <<results, sourceFiles, isProcessing, error, urls,
                            runs>>
       /\ settings' # settings => results' = results /\ runs' = runs]_vars
\* The settings differ from those every displayed result was made with, and
\* no run is in flight.
C13_Witness ==
    /\ runs = {}
    /\ Len(sourceFiles) > 0
    /\ Len(results) > 0
    /\ \A k \in 1..Len(results) :
          /\ results[k].startedWith.quality # settings.quality
          /\ results[k].startedWith.maxWidth # settings.maxWidth

\* The derived file name of a result, from the claim's wording: the name up
\* to its last dot (the whole name when it has no extension), then
\* "-compressed.", then what follows the slash of the blob's media type,
\* "jpg" when the blob has no type.
DerivedName(item) ==
    LET n == item.name
        t == item.compressedBlob.type
        dots == {i \in 1..Len(n) : n[i] = Dot}
        lastDot == CHOOSE i \in dots : \A j \in dots : j <= i
        stem == IF dots = {} THEN n ELSE SubSeq(n, 1, lastDot - 1)
        slash == CHOOSE i \in 1..Len(t) : t[i] = Slash
    IN  stem \o CompressedInfix
           \o (IF t = <<>> THEN JpgFallback
               ELSE SubSeq(t, slash + 1, Len(t)))

\* C14: export-all saves an archive whose entry names are exactly the
\* derived names of the current results, each entry holding the blob of the
\* last result with that derived name (so one entry per result when the
\* names are distinct), and leaves the results unchanged.
C14_ExportAllEntries ==
    [][downloadAll =>
         LET n == Len(results)
             lastWith(k) ==
                 CHOOSE j \in k..n :
                    /\ DerivedName(results[j]) = DerivedName(results[k])
                    /\ \A i \in (j + 1)..n :
                          DerivedName(results[i]) # DerivedName(results[k])
         IN  /\ results' = results
             /\ saved'.call = "archive"
             /\ DOMAIN saved'.content =
                   {DerivedName(results[k]) : k \in 1..n}
             /\ \A k \in 1..n :
                   saved'.content[DerivedName(results[k])] =
                      results[lastWith(k)].compressedBlob
             /\ (\A i, j \in 1..n :
                    i # j => DerivedName(results[i]) # DerivedName(results[j]))
                => Cardinality(DOMAIN saved'.content) = n]_vars
\* An archive was saved for the displayed results, two of which share a
\* derived name, and one entry got the fallback subtype.
C14_Witness ==
    /\ saved.call = "archive"
    /\ Len(results) >= 2
    /\ DOMAIN saved.content =
          {DerivedName(results[k]) : k \in 1..Len(results)}
    /\ Cardinality(DOMAIN saved.content) < Len(results)
    /\ \E k \in 1..Len(results) : results[k].compressedBlob.type = <<>>

\* C15: after any sequence of edits through the controls the settings
\* satisfy the data model: 0 < quality <= 1 (in percent: <= 100), maxWidth
\* and maxHeight positive, so the longest-edge bound is positive.
C15_SettingsSatisfyDataModel ==
    /\ 0 < settings.quality /\ settings.quality <= 100
    /\ settings.maxWidth > 0
    /\ settings.maxHeight > 0
    /\ Max(settings.maxWidth, settings.maxHeight) > 0

\* C16: when every awaited call eventually resolves or fails, every run
\* that starts eventually ends, and whenever no run is in flight the
\* processing flag is false.
C16_RunsEnd ==
    /\ \A id \in RunIdSpace : (id \in RunIds) ~> (id \notin RunIds)
    /\ [](RunIds \subseteq RunIdSpace /\ (runs = {} => ~isProcessing))
\* A run of a selection has started and failed, none is in flight, the
\* controls are enabled.
C16_Witness ==
    /\ runs = {}
    /\ accepted # <<>>
    /\ error = CompressError
    /\ ~isProcessing

\* C17: every result in the collection holds a preview URL that has not
\* been revoked.
C17_DisplayedPreviewsLive ==
    \A k \in 1..Len(results) : urls[results[k].previewUrl].live

\* C18: the processing flag is true whenever a run is in flight.
C18_ProcessingWhileRunInFlight == runs # {} => isProcessing

\* C19: when a run completes with every file compressed, no error message
\* is set afterwards.
C19_NoErrorAfterSuccess ==
    [][\A id \in RunIds : RunSuccess(id) => error' = NoError]_vars

====
